---- MODULE Spec2Model ----
(***************************************************************************)
(* Model of WslExecCommand (plugin.py): the three translation functions    *)
(* wsl_path, wsl_env and wsl_cmd.                                          *)
(*                                                                         *)
(* A Python str is a sequence of one-character strings; a dict is the      *)
(* sequence of its <<key, value>> pairs in insertion order; a list is a    *)
(* sequence.  Each function is a state machine: the initial state holds    *)
(* an input, one action is one call.                                       *)
(***************************************************************************)
EXTENDS Integers, Sequences, FiniteSets, TLC

VARIABLES
    pc,        \* position of the caller: "start", "done", "twice"
    path,      \* wsl_path: the argument
    result,    \* wsl_path: the value returned by the first call
    result2,   \* wsl_path: the value returned for wsl_path(result)
    env0,      \* wsl_env: the caller's dict as it was before the call
    env,       \* wsl_env: the caller's dict object (mutated in place)
    ret,       \* wsl_env: what the call returned: "none", "arg" (the caller's
               \*          object itself) or "new" (another object)
    retval,    \* wsl_env: the contents of the returned object
    raised,    \* wsl_env: TRUE when the call ended in an exception
    cmd,       \* wsl_cmd: [form |-> "str", s |-> chars] or [form |-> "list", l |-> tokens]
    cwd,       \* wsl_cmd: the working directory string
    external,  \* wsl_cmd: the external flag
    argv       \* wsl_cmd: the returned list

vars == <<pc, path, result, result2, env0, env, ret, retval, raised,
          cmd, cwd, external, argv>>

\* ---------------------------------------------------------------- bounds
MaxChunks == 5
MaxEntries == 3
MaxCmdLen == 4
MaxCmdTokens == 2

\* ---------------------------------------------------------------- str
BS == "\\"
SLASH == "/"

Min(a, b) == IF a < b THEN a ELSE b

\* s[a:b] for 0 <= a, 0 <= b: never raises, clamps to the string
Slice(s, a, b) ==
    LET hi == Min(b, Len(s))
    IN  IF a >= hi THEN <<>> ELSE SubSeq(s, a + 1, hi)

\* s[a:]
SliceFrom(s, a) == Slice(s, a, Len(s))

\* s.startswith(pre)
StartsWith(s, pre) == Slice(s, 0, Len(pre)) = pre

\* the literal lit stands in s at (1-based) position i
HasAt(s, i, lit) == Slice(s, i - 1, i - 1 + Len(lit)) = lit

UpperChars ==
    <<"A","B","C","D","E","F","G","H","I","J","K","L","M",
      "N","O","P","Q","R","S","T","U","V","W","X","Y","Z">>
LowerChars ==
    <<"a","b","c","d","e","f","g","h","i","j","k","l","m",
      "n","o","p","q","r","s","t","u","v","w","x","y","z">>

\* c.lower() of one character
Lower(c) ==
    IF \E i \in 1..Len(UpperChars) : UpperChars[i] = c
    THEN LowerChars[CHOOSE i \in 1..Len(UpperChars) : UpperChars[i] = c]
    ELSE c

\* s.replace(old, new) for one-character old and new
RECURSIVE Replace(_, _, _)
Replace(s, old, new) ==
    IF s = <<>> THEN <<>>
    ELSE <<IF Head(s) = old THEN new ELSE Head(s)>> \o Replace(Tail(s), old, new)

\* s.replace(old, new, 1): only the first occurrence
RECURSIVE ReplaceFirst(_, _, _)
ReplaceFirst(s, old, new) ==
    IF s = <<>> THEN <<>>
    ELSE IF Head(s) = old THEN <<new>> \o Tail(s)
    ELSE <<Head(s)>> \o ReplaceFirst(Tail(s), old, new)

\* ---------------------------------------------------------------- wsl_path
WSL == <<"w","s","l">>
DOTLOCALHOST == <<".","l","o","c","a","l","h","o","s","t">>
DOLLAR == <<"$">>
MNT == <<"/","m","n","t","/">>

\* number of characters other than a backslash from position i on: [^\\]*
RECURSIVE NonBsRun(_, _)
NonBsRun(s, i) ==
    IF i > Len(s) \/ s[i] = BS THEN 0 ELSE 1 + NonBsRun(s, i + 1)

\* length of the match of  \\\\wsl(?:\.localhost|\$)\\[^\\]*  at position i,
\* 0 when the pattern does not match there (a match has 7 characters or more)
MatchLen(s, i) ==
    IF ~HasAt(s, i, <<BS, BS>> \o WSL) THEN 0
    ELSE LET j == i + 5
             k == IF HasAt(s, j, DOTLOCALHOST) THEN j + Len(DOTLOCALHOST)
                  ELSE IF HasAt(s, j, DOLLAR) THEN j + 1
                  ELSE 0
         IN  IF k = 0 \/ ~HasAt(s, k, <<BS>>) THEN 0
             ELSE (k + 1 - i) + NonBsRun(s, k + 1)

\* re.sub(pattern, "", s) from position i: every non-overlapping match,
\* leftmost first, is removed
RECURSIVE ReSubFrom(_, _)
ReSubFrom(s, i) ==
    IF i > Len(s) THEN <<>>
    ELSE LET n == MatchLen(s, i)
         IN  IF n > 0 THEN ReSubFrom(s, i + n)
             ELSE <<s[i]>> \o ReSubFrom(s, i + 1)

re_sub(s) == ReSubFrom(s, 1)

\* wsl_path with a final replace that stops after the first backslash
wsl_path_replace_first(p) ==
    LET q == IF StartsWith(p, <<BS, BS>>) THEN re_sub(p)
             ELSE IF Slice(p, 1, 3) = <<":", BS>>
                  THEN MNT \o <<Lower(p[1])>> \o SliceFrom(p, 2)
             ELSE p
    IN  ReplaceFirst(q, BS, SLASH)

\* wsl_path that keeps the drive letter's case
wsl_path_keep_case(p) ==
    LET q == IF StartsWith(p, <<BS, BS>>) THEN re_sub(p)
             ELSE IF Slice(p, 1, 3) = <<":", BS>>
                  THEN MNT \o <<p[1]>> \o SliceFrom(p, 2)
             ELSE p
    IN  Replace(q, BS, SLASH)

wsl_path(p) ==
    LET q == IF StartsWith(p, <<BS, BS>>) THEN re_sub(p)
             ELSE IF Slice(p, 1, 3) = <<":", BS>>
                  THEN MNT \o <<Lower(p[1])>> \o SliceFrom(p, 2)
             ELSE p
    IN  Replace(q, BS, SLASH)

\* the pieces the checked path strings are put together from
PathChunks ==
    { <<BS, BS>>, <<BS>>, WSL \o DOLLAR, WSL \o DOTLOCALHOST,
      <<"u">>, <<"C">>, <<":">> }

RECURSIVE PathsUpTo(_)
PathsUpTo(n) ==
    IF n = 0 THEN {<<>>}
    ELSE LET prev == PathsUpTo(n - 1)
         IN  prev \cup {p \o c : p \in prev, c \in PathChunks}

\* ---------------------------------------------------------------- dict
\* list(d): the keys in insertion order
DictKeys(d) == [i \in 1..Len(d) |-> d[i][1]]

\* the dict as a mapping: its set of (key, value) pairs
DictItems(d) == {d[i] : i \in 1..Len(d)}

\* k in d
DictHas(d, k) == \E i \in 1..Len(d) : d[i][1] = k

\* d.get(k, default)
DictGet(d, k, default) ==
    IF DictHas(d, k)
    THEN d[CHOOSE i \in 1..Len(d) : d[i][1] = k][2]
    ELSE default

\* d[k] = v: an existing key keeps its place, a new key goes last
DictSet(d, k, v) ==
    IF DictHas(d, k)
    THEN [i \in 1..Len(d) |-> IF d[i][1] = k THEN <<k, v>> ELSE d[i]]
    ELSE Append(d, <<k, v>>)

\* d after d.pop(k)
DictDel(d, k) == SelectSeq(d, LAMBDA e : e[1] # k)

\* sep.join(strs)
RECURSIVE Join(_, _)
Join(strs, sep) ==
    IF strs = <<>> THEN <<>>
    ELSE IF Len(strs) = 1 THEN strs[1]
    ELSE strs[1] \o sep \o Join(Tail(strs), sep)

\* s.lstrip(chars), s.rstrip(chars), s.strip(chars)
RECURSIVE LStrip(_, _)
LStrip(s, chars) ==
    IF s # <<>> /\ Head(s) \in chars THEN LStrip(Tail(s), chars) ELSE s

RECURSIVE RStrip(_, _)
RStrip(s, chars) ==
    IF s # <<>> /\ s[Len(s)] \in chars
    THEN RStrip(SubSeq(s, 1, Len(s) - 1), chars)
    ELSE s

Strip(s, chars) == RStrip(LStrip(s, chars), chars)

\* ---------------------------------------------------------------- wsl_env
WSLENV == <<"W","S","L","E","N","V">>
COLON == <<":">>
Flags == {"l", "p", "u", "w"}

\* the loop over keys, from the i-th key on.  key[-2] raises IndexError for a
\* key shorter than two characters, env.pop(key) raises KeyError for a key
\* that is gone; the dict keeps what the loop did before the exception.
RECURSIVE StripFlags(_, _, _)
StripFlags(d, keys, i) ==
    IF i > Len(keys) THEN [env |-> d, raised |-> FALSE]
    ELSE LET key == keys[i]
             n == Len(key)
         IN  IF n < 2 THEN [env |-> d, raised |-> TRUE]
             ELSE IF key[n - 1] = SLASH /\ key[n] \in Flags
                  THEN IF ~DictHas(d, key) THEN [env |-> d, raised |-> TRUE]
                       ELSE StripFlags(
                                DictSet(DictDel(d, key), Slice(key, 0, n - 2),
                                        DictGet(d, key, <<>>)),
                                keys, i + 1)
             ELSE StripFlags(d, keys, i + 1)

\* the body of wsl_env on the contents e of the dict it was given: the
\* contents it leaves in that dict, and whether an exception ended the call
EnvBody(e) ==
    LET keys == DictKeys(e)
        existing == DictGet(e, WSLENV, <<>>)
        e1 == DictSet(e, WSLENV, Join(keys, COLON))
        e2 == IF existing # <<>>
              THEN DictSet(e1, WSLENV,
                           DictGet(e1, WSLENV, <<>>) \o COLON
                               \o Strip(existing, {" ", ":"}))
              ELSE e1
    IN  IF keys = <<>> THEN [env |-> e, raised |-> FALSE]
        ELSE StripFlags(e2, keys, 1)

\* wsl_env working on a copy of its argument (env = dict(env) first)
wsl_env_copy(e) ==
    LET r == EnvBody(e)
    IN  [env |-> e,
         ret |-> IF r.raised THEN "none" ELSE "new",
         retval |-> IF r.raised THEN <<>> ELSE r.env,
         raised |-> r.raised]

\* wsl_env(env): env is the caller's object after the call, ret tells which
\* object came back ("arg": the one passed in), retval its contents
wsl_env(e) ==
    LET r == EnvBody(e)
    IN  [env |-> r.env,
         ret |-> IF r.raised THEN "none" ELSE "arg",
         retval |-> IF r.raised THEN <<>> ELSE r.env,
         raised |-> r.raised]

\* the keys and values the checked mappings are made of
EnvKeys ==
    { <<"A">>, <<"A","B">>, <<"A","/","p">>, <<"A","B","/","w">>,
      <<"/","p">>, <<"A","/","z">>, WSLENV, WSLENV \o <<"/","u">> }

EnvValues == { <<>>, <<"1">>, <<":","Z"," ">> }

\* every dict of at most n entries over EnvKeys and EnvValues: the keys of
\* a dict are distinct
RECURSIVE EnvsUpTo(_)
EnvsUpTo(n) ==
    IF n = 0 THEN {<<>>}
    ELSE LET prev == EnvsUpTo(n - 1)
             full == {x \in prev : Len(x) = n - 1}
         IN  prev \cup {Append(t[1], <<t[2], t[3]>>) :
                          t \in {u \in full \X EnvKeys \X EnvValues :
                                    ~DictHas(u[1], u[2])}}

\* ---------------------------------------------------------------- wsl_cmd
START == <<"s","t","a","r","t">>
CMD == <<"c","m","d">>
SLASHK == <<"/","k">>
CD == <<"c","d">>
SEMI == <<";">>
SPACE == " "

\* what str.strip() without an argument removes
Whitespace == {" ", "\t", "\n", "\r", "\f"}

\* s.split(sep) for a one-character sep: one piece more than there are
\* separators, empty pieces included
RECURSIVE Split(_, _)
Split(s, sep) ==
    IF \A i \in 1..Len(s) : s[i] # sep THEN <<s>>
    ELSE LET i == CHOOSE i \in 1..Len(s) :
                      s[i] = sep /\ \A j \in 1..(i - 1) : s[j] # sep
         IN  <<Slice(s, 0, i - 1)>> \o Split(SliceFrom(s, i), sep)

\* wsl_cmd that appends the cd segment after the command
wsl_cmd_cd_last(c, d, ext) ==
    LET wsl == IF ext THEN <<START, CMD, SLASHK, WSL>> ELSE <<WSL>>
        seg == IF d # <<>> THEN <<CD, wsl_path(d), SEMI>> ELSE <<>>
        parts == Split(c.s, SPACE)
    IN  IF c.form = "str"
        THEN wsl \o [i \in 1..Len(parts) |-> Strip(parts[i], Whitespace)] \o seg
        ELSE wsl \o c.l \o seg

\* wsl_cmd that returns the split pieces as they are (no a.strip())
wsl_cmd_no_strip(c, d, ext) ==
    LET wsl0 == IF ext THEN <<START, CMD, SLASHK, WSL>> ELSE <<WSL>>
        wsl == IF d # <<>> THEN wsl0 \o <<CD, wsl_path(d), SEMI>> ELSE wsl0
    IN  IF c.form = "str" THEN wsl \o Split(c.s, SPACE) ELSE wsl \o c.l

wsl_cmd(c, d, ext) ==
    LET wsl0 == IF ext THEN <<START, CMD, SLASHK, WSL>> ELSE <<WSL>>
        wsl == IF d # <<>> THEN wsl0 \o <<CD, wsl_path(d), SEMI>> ELSE wsl0
        parts == Split(c.s, SPACE)
    IN  IF c.form = "str"
        THEN wsl \o [i \in 1..Len(parts) |-> Strip(parts[i], Whitespace)]
        ELSE wsl \o c.l

\* the commands, working directories checked
CmdChars == {"e", " ", "\t"}
CmdTokens == { <<"e">>, <<"h"," ","t">>, <<"\t","e">> }

RECURSIVE SeqsUpTo(_, _)
SeqsUpTo(S, n) ==
    IF n = 0 THEN {<<>>}
    ELSE LET prev == SeqsUpTo(S, n - 1)
         IN  prev \cup {Append(q, x) : q \in prev, x \in S}

\* a command is a string of at most n characters or a list of at most m tokens
Cmds(n, m) ==
    {[form |-> "str", s |-> q, l |-> <<>>] : q \in SeqsUpTo(CmdChars, n)}
    \cup {[form |-> "list", s |-> <<>>, l |-> q] : q \in SeqsUpTo(CmdTokens, m)}

Cwds ==
    { <<>>, <<"/","u">>, <<"C",":",BS,"u">>,
      <<BS, BS>> \o WSL \o DOLLAR \o <<BS,"u",BS,"u">> }

\* ---------------------------------------------------------------- machines
PathIdle == path = <<>> /\ result = <<>> /\ result2 = <<>>
EnvIdle == env0 = <<>> /\ env = <<>> /\ ret = "none" /\ retval = <<>> /\ raised = FALSE
CmdIdle ==
    /\ cmd = [form |-> "list", s |-> <<>>, l |-> <<>>]
    /\ cwd = <<>> /\ external = FALSE /\ argv = <<>>

pathVars == <<path, result, result2>>
envVars == <<env0, env, ret, retval, raised>>
cmdVars == <<cmd, cwd, external, argv>>

\* --- wsl_path, called on a path and then on its own result
InitPath ==
    /\ pc = "start"
    /\ path \in PathsUpTo(MaxChunks) /\ result = <<>> /\ result2 = <<>>
    /\ EnvIdle /\ CmdIdle

Translate ==
    /\ pc = "start"
    /\ result' = wsl_path(path)
    /\ pc' = "done"
    /\ UNCHANGED <<path, result2, envVars, cmdVars>>

TranslateAgain ==
    /\ pc = "done"
    /\ result2' = wsl_path(result)
    /\ pc' = "twice"
    /\ UNCHANGED <<path, result, envVars, cmdVars>>

NextPath == Translate \/ TranslateAgain

SpecPath == InitPath /\ [][NextPath]_vars

\* --- wsl_env, called on the caller's dict
InitEnv ==
    /\ pc = "start"
    /\ env0 \in EnvsUpTo(MaxEntries) /\ env = env0
    /\ ret = "none" /\ retval = <<>> /\ raised = FALSE
    /\ PathIdle /\ CmdIdle

CallEnv ==
    /\ pc = "start"
    /\ LET r == wsl_env(env)
       IN  /\ env' = r.env
           /\ ret' = r.ret
           /\ retval' = r.retval
           /\ raised' = r.raised
    /\ pc' = "done"
    /\ UNCHANGED <<env0, pathVars, cmdVars>>

NextEnv == CallEnv

SpecEnv == InitEnv /\ [][NextEnv]_vars

\* --- wsl_cmd
InitCmd ==
    /\ pc = "start"
    /\ cmd \in Cmds(MaxCmdLen, MaxCmdTokens) /\ cwd \in Cwds /\ external \in BOOLEAN
    /\ argv = <<>>
    /\ PathIdle /\ EnvIdle

CallCmd ==
    /\ pc = "start"
    /\ argv' = wsl_cmd(cmd, cwd, external)
    /\ pc' = "done"
    /\ UNCHANGED <<cmd, cwd, external, pathVars, envVars>>

NextCmd == CallCmd

SpecCmd == InitCmd /\ [][NextCmd]_vars

\* ================================================================ claims
\* ---------------------------------------------------------------- wsl_env

\* the name of an input key: a recognized /l, /p, /u or /w suffix removed
FlagStripped(key) ==
    IF Len(key) >= 2 /\ key[Len(key) - 1] = SLASH /\ key[Len(key)] \in Flags
    THEN Slice(key, 0, Len(key) - 2)
    ELSE key

\* C1: wsl_env never raises: whatever mapping it is given, keys of one or
\* two characters included, the call returns.
EnvNeverRaises == pc = "done" => ~raised

\* C2: wsl_env never loses a supplied entry: when the call returns, every
\* input name (flag stripped) is a key of the returned mapping exactly once
\* and, unless it is the directive WSLENV, holds the value it was supplied
\* with, also when two input keys strip to the same name.
EnvKeepsEveryEntry ==
    (pc = "done" /\ ~raised) =>
        \A i \in 1..Len(env0) :
            LET name == FlagStripped(env0[i][1])
            IN  /\ Cardinality({j \in 1..Len(retval) : retval[j][1] = name}) = 1
                /\ name # WSLENV => DictGet(retval, name, <<"?">>) = env0[i][2]

EnvDirective ==
    (pc = "done" /\ ~raised /\ env0 # <<>>) =>
        LET existing == DictGet(env0, WSLENV, <<>>)
            names == Join(DictKeys(env0), COLON)
        IN  /\ DictHas(retval, WSLENV)
            /\ DictGet(retval, WSLENV, <<>>) =
                   IF existing = <<>> THEN names
                   ELSE names \o COLON \o Strip(existing, {" ", ":"})

\* ---------------------------------------------------------------- wsl_path
Letters == {UpperChars[i] : i \in 1..Len(UpperChars)}
               \cup {LowerChars[i] : i \in 1..Len(LowerChars)}

\* the lower-case form of a letter
LowerCaseOf(c) ==
    LowerChars[CHOOSE i \in 1..Len(LowerChars) :
                   UpperChars[i] = c \/ LowerChars[i] = c]

\* X:\<rest>: a letter, a colon and a backslash at positions 0-2
IsDrivePath(p) ==
    Len(p) >= 3 /\ p[1] \in Letters /\ p[2] = ":" /\ p[3] = BS

Slashed(s) == [i \in 1..Len(s) |-> IF s[i] = BS THEN SLASH ELSE s[i]]

NoBackslash(s) == \A i \in 1..Len(s) : s[i] # BS

\* the length of a leading \\wsl$\<distro> or \\wsl.localhost\<distro>
\* segment of p, 0 when p does not begin with one
LeadingShare(p) ==
    LET afterMarker ==
            IF StartsWith(p, <<BS, BS>> \o WSL \o DOLLAR \o <<BS>>) THEN 7
            ELSE IF StartsWith(p, <<BS, BS>> \o WSL \o DOTLOCALHOST \o <<BS>>) THEN 16
            ELSE 0
    IN  IF afterMarker = 0 THEN 0
        ELSE CHOOSE n \in afterMarker..Len(p) :
                 /\ \A i \in (afterMarker + 1)..n : p[i] # BS
                 /\ (n = Len(p) \/ p[n + 1] = BS)

\* C5: of a path beginning with a double backslash only a leading
\* \\wsl$\<distro> or \\wsl.localhost\<distro> segment is removed; everything
\* after it, and the whole of any other UNC path, is returned with nothing
\* removed and its backslashes turned into forward slashes.
PathStripsLeadingShareOnly ==
    (pc # "start" /\ StartsWith(path, <<BS, BS>>)) =>
        result = Slashed(SliceFrom(path, LeadingShare(path)))

\* C6: a drive-letter path X:\<rest> becomes /mnt/<lower-case x>/<rest> with
\* the backslashes of <rest> turned into forward slashes and nothing else
\* changed; a string of fewer than 3 characters passes through, backslashes
\* converted.
PathDriveLetter ==
    pc # "start" =>
        /\ IsDrivePath(path) =>
               result = MNT \o <<LowerCaseOf(path[1]), SLASH>>
                            \o Slashed(SliceFrom(path, 3))
        /\ Len(path) < 3 => result = Slashed(path)

PathDriveLetterWitness ==
    /\ pc = "done" /\ IsDrivePath(path) /\ path[1] = "C"
    /\ \E i \in 4..Len(path) : path[i] = BS
    /\ \E i \in 4..Len(path) : path[i] # BS

\* C7: wsl_path is idempotent, wsl_path(wsl_path(p)) = wsl_path(p), and a
\* path without backslashes (already POSIX) is returned unchanged.
PathIdempotent ==
    /\ pc = "twice" => result2 = result
    /\ (pc # "start" /\ NoBackslash(path)) => result = path

PathIdempotentWitness ==
    /\ pc = "twice"
    /\ StartsWith(path, <<BS, BS>>) /\ LeadingShare(path) > 0
    /\ Len(result) > 1 /\ result # path /\ result2 = result

\* ---------------------------------------------------------------- wsl_cmd
LauncherPrefix(ext) ==
    IF ext THEN <<START, CMD, SLASHK, WSL>> ELSE <<WSL>>

\* where the command tokens begin in argv (0-based)
TokensOffset == Len(LauncherPrefix(external)) + (IF cwd # <<>> THEN 3 ELSE 0)

\* the tokens of argv that follow the prefix and the cd segment
CommandPart == SliceFrom(argv, TokensOffset)

\* the pieces of a command string between its spaces
Pieces(s) == Split(s, SPACE)

\* the tokens of a command: a list as it is, a string split at its spaces,
\* each piece without its leading and trailing whitespace
NormalTokens(c) ==
    IF c.form = "list" THEN c.l
    ELSE [i \in 1..Len(Pieces(c.s)) |-> Strip(Pieces(c.s)[i], Whitespace)]

\* C8: argv is the launcher prefix, then, exactly when the working directory
\* is not empty, "cd", wsl_path(workingDir), ";", then the command tokens in
\* their order.
CmdArgvShape ==
    pc = "done" =>
        LET pre == LauncherPrefix(external)
            n == Len(pre)
            toks == NormalTokens(cmd)
        IN  /\ Len(argv) = TokensOffset + Len(toks)
            /\ \A i \in 1..n : argv[i] = pre[i]
            /\ cwd # <<>> =>
                   (argv[n + 1] = CD /\ argv[n + 2] = wsl_path(cwd)
                        /\ argv[n + 3] = SEMI)
            /\ \A i \in 1..Len(toks) : argv[TokensOffset + i] = toks[i]

CmdArgvShapeWitness ==
    /\ pc = "done" /\ external /\ cwd # <<>> /\ cwd # wsl_path(cwd)
    /\ cmd.form = "str" /\ Len(argv) = 9
    /\ argv[8] # <<>> /\ argv[9] # <<>> /\ argv[8] # argv[9]

\* C9: an empty command, string or list, adds no token: argv is the launcher
\* prefix alone, or the prefix and the three cd tokens.
CmdEmptyIsPrefixOnly ==
    (pc = "done" /\ cmd.s = <<>> /\ cmd.l = <<>>) => CommandPart = <<>>

\* C10 as stated: a list reaches argv as it is; a string contributes exactly
\* the pieces between its spaces, their text unchanged.
CmdSplitUnchanged ==
    pc = "done" =>
        CommandPart = (IF cmd.form = "list" THEN cmd.l ELSE Pieces(cmd.s))

\* C10 as amended: a list reaches argv as it is; a string contributes one
\* token per piece between its spaces (one more than it has spaces), each
\* piece stripped of its leading and trailing whitespace.
CmdSplitStripped ==
    pc = "done" =>
        /\ cmd.form = "list" => CommandPart = cmd.l
        /\ cmd.form = "str" =>
               /\ Len(CommandPart) =
                      1 + Cardinality({i \in 1..Len(cmd.s) : cmd.s[i] = SPACE})
               /\ \A i \in 1..Len(CommandPart) :
                      CommandPart[i] = Strip(Pieces(cmd.s)[i], Whitespace)

CmdSplitStrippedWitness ==
    /\ pc = "done" /\ cmd.form = "str"
    /\ \E i \in 1..Len(cmd.s) : cmd.s[i] = "\t"
    /\ Len(CommandPart) = 2
    /\ CommandPart # Pieces(cmd.s)
    /\ CommandPart[1] # <<>>

====
